---------------------------- MODULE Spec2Model ----------------------------
(***************************************************************************)
(* A model of the Chunker class of src/chunker.js: the hand-written        *)
(* operations equalSizeChunk, sentenceChunk, getChunkStats and             *)
(* validateChunks, and the configuration each library-backed operation     *)
(* hands to its text splitter.                                             *)
(*                                                                         *)
(* A JavaScript string is a sequence of one-character strings, an array a  *)
(* sequence, an options object a record that has a field exactly when the  *)
(* caller set it.  Spec is the whole class; each component also has a      *)
(* specification of its own: SpecEqualSize, SpecSentence, SpecAnalyze and  *)
(* SpecConfig.                                                             *)
(***************************************************************************)
EXTENDS Integers, Sequences, FiniteSets, TLC

VARIABLES
    ctorOptions,          \* the options the Chunker was constructed with
    defaultChunkSize,     \* this.defaultChunkSize
    defaultChunkOverlap,  \* this.defaultChunkOverlap
    defaultSeparators,    \* this.defaultSeparators
    pc,                   \* where the current call stands
    text,                 \* the text argument of a splitting call
    options,              \* the per-call options argument
    chunkSize,            \* equalSizeChunk: parameter chunkSize
    overlap,              \* equalSizeChunk: parameter overlap
    start,                \* equalSizeChunk: local start
    chunks,               \* the chunks array a splitting call builds
    sentences,            \* sentenceChunk: local sentences
    idx,                  \* sentenceChunk: position of the for-of loop (0-based)
    currentChunk,         \* sentenceChunk: local currentChunk
    input,                \* the chunks argument of getChunkStats / validateChunks
    maxSize,              \* validateChunks: parameter maxSize
    stats,                \* what getChunkStats returned (<<>> before the call)
    validations,          \* what the calls of validateChunks returned, in order
    splitterArgs          \* what a library-backed operation passed to its splitter

vars == <<ctorOptions, defaultChunkSize, defaultChunkOverlap, defaultSeparators,
          pc, text, options, chunkSize, overlap, start, chunks, sentences, idx,
          currentChunk, input, maxSize, stats, validations, splitterArgs>>

instanceVars == <<ctorOptions, defaultChunkSize, defaultChunkOverlap, defaultSeparators>>
equalSizeVars == <<chunkSize, overlap, start>>
sentenceVars == <<sentences, idx, currentChunk>>
analyzeVars == <<input, maxSize, stats, validations>>

----------------------------------------------------------------------------
(* Bounds of the model *)

MaxTextLen == 10       \* equalSizeChunk: longest text
MaxChunkSize == 5      \* equalSizeChunk: largest chunkSize argument
MaxOverlap == 4        \* equalSizeChunk: largest overlap argument
MaxEmitted == 6        \* equalSizeChunk: pushes followed before the model stops

----------------------------------------------------------------------------
(* JavaScript primitives *)

Min(a, b) == IF a <= b THEN a ELSE b
Max(a, b) == IF a >= b THEN a ELSE b

\* String.prototype.slice(b, e): a negative index counts from the end, both
\* are clamped to the string, an empty range gives "".
Slice(s, b, e) ==
    LET len == Len(s)
        from == IF b < 0 THEN Max(len + b, 0) ELSE Min(b, len)
        to == IF e < 0 THEN Max(len + e, 0) ELSE Min(e, len)
    IN  IF from >= to THEN <<>> ELSE SubSeq(s, from + 1, to)

\* An options object with no field set: {}.
NoOptions == [f \in {} |-> 0]

\* options.f || d for a numeric field: undefined and 0 are falsy.
NumOr(o, f, d) == IF f \in DOMAIN o /\ o[f] # 0 THEN o[f] ELSE d

\* options.f || d for an array or a non-empty string: only undefined is falsy.
RefOr(o, f, d) == IF f \in DOMAIN o THEN o[f] ELSE d

----------------------------------------------------------------------------
(* new Chunker(options) *)

FallbackChunkSize == 1000
FallbackChunkOverlap == 200
FallbackSeparators == <<"\n\n", "\n", " ", "">>

Constructor(o) ==
    [defaultChunkSize |-> NumOr(o, "chunkSize", FallbackChunkSize),
     defaultChunkOverlap |-> NumOr(o, "chunkOverlap", FallbackChunkOverlap),
     defaultSeparators |-> RefOr(o, "separators", FallbackSeparators)]

\* The exported instance: new Chunker({chunkSize: 1000, chunkOverlap: 200}).
defaultChunker == [chunkSize |-> 1000, chunkOverlap |-> 200]

Constructed(o) ==
    /\ ctorOptions = o
    /\ defaultChunkSize = Constructor(o).defaultChunkSize
    /\ defaultChunkOverlap = Constructor(o).defaultChunkOverlap
    /\ defaultSeparators = Constructor(o).defaultSeparators

\* The locals of the operations that are not running.
IdleEqualSize == chunkSize = 0 /\ overlap = 0 /\ start = 0
IdleSentence == sentences = <<>> /\ idx = 0 /\ currentChunk = <<>>
IdleAnalyze == input = <<>> /\ maxSize = 0 /\ stats = <<>> /\ validations = <<>>
IdleSplit == text = <<>> /\ options = NoOptions /\ chunks = <<>>
IdleConfig == splitterArgs = <<>>

----------------------------------------------------------------------------
(* equalSizeChunk(text, chunkSize, overlap = 0) *)

Letters == <<"a", "b", "c", "d", "e", "f", "g", "h", "i", "j", "k", "l", "m", "n">>

\* The texts split: "", "a", "ab", ... (distinct characters, so that a chunk
\* tells where it was cut from) and the "x" of the specification's scenario.
EqualSizeTexts == {SubSeq(Letters, 1, n) : n \in 0..MaxTextLen} \cup {<<"x">>}

\* The arguments after text; overlap may be left out.
EqualSizeArgs ==
    [chunkSize : (0 - 1)..MaxChunkSize]
        \cup [chunkSize : (0 - 1)..MaxChunkSize, overlap : (0 - 1)..MaxOverlap]

InitEqualSize ==
    /\ Constructed(defaultChunker)
    /\ text \in EqualSizeTexts
    /\ \E a \in EqualSizeArgs :
          /\ chunkSize = a.chunkSize
          /\ overlap = RefOr(a, "overlap", 0)
    /\ pc = "equalSizeChunk"
    /\ start = 0
    /\ chunks = <<>>
    /\ options = NoOptions
    /\ IdleSentence /\ IdleAnalyze /\ IdleConfig

\* const chunks = []; let start = 0;
EqualSizeEnter ==
    /\ pc = "equalSizeChunk"
    /\ chunks' = <<>>
    /\ start' = 0
    /\ pc' = "while"
    /\ UNCHANGED <<instanceVars, text, options, chunkSize, overlap,
                   sentenceVars, analyzeVars, splitterArgs>>

EqualSizeEnd == Min(start + chunkSize, Len(text))

EqualSizeNextStart == EqualSizeEnd - overlap

\* One pass of the loop body: push the window, move start, break at the end.
EqualSizeIter ==
    /\ pc = "while"
    /\ start < Len(text)
    /\ Len(chunks) < MaxEmitted
    /\ chunks' = Append(chunks, Slice(text, start, EqualSizeEnd))
    /\ start' = EqualSizeNextStart
    /\ pc' = IF EqualSizeNextStart >= Len(text) THEN "return" ELSE "while"
    /\ UNCHANGED <<instanceVars, text, options, chunkSize, overlap,
                   sentenceVars, analyzeVars, splitterArgs>>

\* The loop condition fails: return chunks.
EqualSizeExit ==
    /\ pc = "while"
    /\ ~(start < Len(text))
    /\ pc' = "return"
    /\ UNCHANGED <<instanceVars, text, options, chunkSize, overlap, start, chunks,
                   sentenceVars, analyzeVars, splitterArgs>>

NextEqualSize == EqualSizeEnter \/ EqualSizeIter \/ EqualSizeExit

SpecEqualSize == InitEqualSize /\ [][NextEqualSize]_vars


----------------------------------------------------------------------------
(* Claims about equalSizeChunk *)

\* A valid configuration: chunkSize > 0 and 0 <= overlap < chunkSize.
ValidConfig == chunkSize > 0 /\ overlap >= 0 /\ overlap < chunkSize

Stride == chunkSize - overlap

\* ceil(a / b) for b > 0
CeilDiv(a, b) == (a + b - 1) \div b

\* C1: under a valid configuration, overlap > 0 included, the split
\* terminates: every pass of the loop moves the window start strictly
\* forward, so that it reaches the end of the text.
C1_StartStrictlyAdvances ==
    [][(ValidConfig /\ EqualSizeIter) => start' > start]_vars

\* C2: an invalid configuration (chunkSize <= 0, overlap >= chunkSize or
\* overlap < 0) is rejected before any chunk is produced: the call pushes no
\* chunk and never returns a chunk sequence.
C2_InvalidConfigRejected ==
    ~ValidConfig => (chunks = <<>> /\ pc # "return")

\* C3: under a valid configuration the i-th chunk (0-based) is the substring
\* of the text from i*(S-O) up to but excluding min(i*(S-O)+S, L), and chunks
\* are produced for exactly the i with i*(S-O) < L.
C3_ChunkIsWindow ==
    ValidConfig =>
        /\ \A i \in 0..(Len(chunks) - 1) :
              /\ i * Stride < Len(text)
              /\ chunks[i + 1] =
                     SubSeq(text, i * Stride + 1,
                            Min(i * Stride + chunkSize, Len(text)))
        /\ pc = "return" =>
              Len(chunks) = Cardinality({i \in 0..Len(text) : i * Stride < Len(text)})

\* C4: for a non-empty text under a valid configuration, every chunk except
\* the last has length exactly chunkSize and the last has length <= chunkSize.
C4_ChunkLengths ==
    (ValidConfig /\ text # <<>>) =>
        \A i \in 1..Len(chunks) :
            IF i < Len(chunks)
            THEN Len(chunks[i]) = chunkSize
            ELSE Len(chunks[i]) <= chunkSize

\* The number of chunks the specification gives for the call.
ExpectedCount ==
    IF Len(text) > overlap THEN CeilDiv(Len(text) - overlap, Stride) ELSE 1

\* C5: for a non-empty text under a valid configuration the number of chunks
\* is ceil((L - O) / (S - O)) when L > O, and 1 when L <= O.
C5_ChunkCount ==
    (ValidConfig /\ text # <<>>) =>
        /\ Len(chunks) <= ExpectedCount
        /\ pc = "return" => Len(chunks) = ExpectedCount


----------------------------------------------------------------------------
(* sentenceChunk(text, options = {}) *)

MaxSentenceText == 5   \* longest text over SentenceAlphabet
MaxSentenceSize == 5   \* largest options.chunkSize

SentenceAlphabet == {"A", ".", " "}

\* [.!?] of the regular expression
IsTerminal(c) == c \in {".", "!", "?"}

\* \s of the regular expression, and what trim() removes
IsSpace(c) == c \in {" ", "\t", "\n", "\r"}

\* /(?<=[.!?])\s+/ tried at index q (0-based): the index after the match, or
\* -1.  It matches a run of white space that follows a terminal character.
RECURSIVE SkipSpace(_, _)
SkipSpace(s, q) ==
    IF q < Len(s) /\ IsSpace(s[q + 1]) THEN SkipSpace(s, q + 1) ELSE q

MatchEnd(s, q) ==
    IF q >= 1 /\ q < Len(s) /\ IsTerminal(s[q]) /\ IsSpace(s[q + 1])
    THEN SkipSpace(s, q)
    ELSE 0 - 1

\* String.prototype.split(regexp): p is the end of the last match, q the
\* index tried next; the rest of the string is the last piece.
RECURSIVE SplitFrom(_, _, _, _)
SplitFrom(s, p, q, acc) ==
    IF q >= Len(s)
    THEN Append(acc, SubSeq(s, p + 1, Len(s)))
    ELSE LET e == MatchEnd(s, q)
         IN  IF e = 0 - 1 \/ e = p
             THEN SplitFrom(s, p, q + 1, acc)
             ELSE SplitFrom(s, e, e, Append(acc, SubSeq(s, p + 1, q)))

Split(s) == SplitFrom(s, 0, 0, <<>>)

\* String.prototype.trim()
RECURSIVE TrimStart(_)
TrimStart(s) ==
    IF s # <<>> /\ IsSpace(Head(s)) THEN TrimStart(Tail(s)) ELSE s

RECURSIVE TrimEnd(_)
TrimEnd(s) ==
    IF s # <<>> /\ IsSpace(s[Len(s)]) THEN TrimEnd(SubSeq(s, 1, Len(s) - 1)) ELSE s

Trim(s) == TrimEnd(TrimStart(s))

\* The strings over SentenceAlphabet of length n
RECURSIVE StringsOfLen(_)
StringsOfLen(n) ==
    IF n = 0 THEN {<<>>}
    ELSE {Append(s, c) : s \in StringsOfLen(n - 1), c \in SentenceAlphabet}

\* "A. B. C.", the text of the specification's scenario
ScenarioText == <<"A", ".", " ", "B", ".", " ", "C", ".">>

SentenceTexts ==
    UNION {StringsOfLen(n) : n \in 0..MaxSentenceText} \cup {ScenarioText}

SentenceOptions == {NoOptions} \cup [chunkSize : 0..MaxSentenceSize]

\* The instances sentenceChunk is called on: new Chunker() and
\* new Chunker({chunkSize: 3}).
SentenceInstances == {NoOptions, [chunkSize |-> 3]}

InitSentence ==
    /\ \E o \in SentenceInstances : Constructed(o)
    /\ text \in SentenceTexts
    /\ options \in SentenceOptions
    /\ pc = "sentenceChunk"
    /\ chunks = <<>>
    /\ IdleSentence /\ IdleEqualSize /\ IdleAnalyze /\ IdleConfig

\* const sentences = text.split(...); const chunks = []; let currentChunk = "";
SentenceEnter ==
    /\ pc = "sentenceChunk"
    /\ sentences' = Split(text)
    /\ chunks' = <<>>
    /\ currentChunk' = <<>>
    /\ idx' = 0
    /\ pc' = "for"
    /\ UNCHANGED <<instanceVars, text, options, equalSizeVars, analyzeVars,
                   splitterArgs>>

\* options.chunkSize || this.defaultChunkSize
SentenceLimit == NumOr(options, "chunkSize", defaultChunkSize)

\* if ((currentChunk + sentence).length <= limit)
SentenceFits(sentence) == Len(currentChunk \o sentence) <= SentenceLimit

\* if (currentChunk) chunks.push(currentChunk.trim());
PushCurrent ==
    IF currentChunk # <<>> THEN Append(chunks, Trim(currentChunk)) ELSE chunks

\* One pass of the for-of loop.
SentenceIter ==
    /\ pc = "for"
    /\ idx < Len(sentences)
    /\ LET sentence == sentences[idx + 1]
       IN  IF SentenceFits(sentence)
           THEN /\ currentChunk' =
                       currentChunk
                           \o (IF currentChunk # <<>> THEN <<" ">> ELSE <<>>)
                           \o sentence
                /\ chunks' = chunks
           ELSE /\ chunks' = PushCurrent
                /\ currentChunk' = sentence
    /\ idx' = idx + 1
    /\ UNCHANGED <<instanceVars, pc, text, options, sentences, equalSizeVars,
                   analyzeVars, splitterArgs>>

\* The loop is over: push what is left and return chunks.
SentenceExit ==
    /\ pc = "for"
    /\ idx = Len(sentences)
    /\ chunks' = PushCurrent
    /\ pc' = "return"
    /\ UNCHANGED <<instanceVars, text, options, sentenceVars, equalSizeVars,
                   analyzeVars, splitterArgs>>

NextSentence == SentenceEnter \/ SentenceIter \/ SentenceExit

SpecSentence == InitSentence /\ [][NextSentence]_vars

\* C6: a sentence is appended to the running chunk only if the chunk, with
\* the single-space separator counted, stays within chunkSize; hence only a
\* chunk that is a single sentence may be longer than chunkSize, and
\* "A. B. C." with chunkSize 4 gives "A.", "B.", "C.".
C6_OnlySingleSentenceExceeds ==
    /\ \A i \in 1..Len(chunks) :
          Len(chunks[i]) > SentenceLimit =>
              \E j \in 1..Len(sentences) : chunks[i] = Trim(sentences[j])
    /\ (text = ScenarioText /\ SentenceLimit = 4 /\ pc = "return") =>
          chunks = <<<<"A", ".">>, <<"B", ".">>, <<"C", ".">>>>

----------------------------------------------------------------------------
(* getChunkStats(chunks) and validateChunks(chunks, maxSize) *)

MaxChunkLen == 6       \* longest chunk of an inspected collection
MaxInputChunks == 3    \* most chunks in an inspected collection
MaxCalls == 2          \* calls of validateChunks followed

\* The chunks inspected: "", "a", "ab", ...; only their lengths are read.
InputChunks == {SubSeq(Letters, 1, n) : n \in 0..MaxChunkLen}

RECURSIVE CollectionsOfLen(_)
CollectionsOfLen(n) ==
    IF n = 0 THEN {<<>>}
    ELSE {Append(cs, c) : cs \in CollectionsOfLen(n - 1), c \in InputChunks}

InputCollections == UNION {CollectionsOfLen(n) : n \in 0..MaxInputChunks}

\* chunks.map(chunk => chunk.length)
Lengths(cs) == [i \in 1..Len(cs) |-> Len(cs[i])]

\* lengths.reduce((sum, len) => sum + len, 0)
RECURSIVE ReduceSum(_, _)
ReduceSum(lengths, sum) ==
    IF lengths = <<>> THEN sum ELSE ReduceSum(Tail(lengths), sum + Head(lengths))

\* Round with Math.floor in the place of Math.round.
RoundDown(total, count) ==
    IF count = 0 THEN "NaN" ELSE total \div count

\* Math.round(total / count): 0 / 0 is NaN; otherwise the nearest integer,
\* a half rounded up.
Round(total, count) ==
    IF count = 0 THEN "NaN" ELSE (2 * total + count) \div (2 * count)

\* Math.min(...lengths): Infinity when there is no argument.
RECURSIVE MinOf(_)
MinOf(lengths) ==
    IF lengths = <<>> THEN "Infinity"
    ELSE IF Len(lengths) = 1 THEN Head(lengths)
    ELSE Min(Head(lengths), MinOf(Tail(lengths)))

\* Math.max(...lengths): -Infinity when there is no argument.
RECURSIVE MaxOf(_)
MaxOf(lengths) ==
    IF lengths = <<>> THEN "-Infinity"
    ELSE IF Len(lengths) = 1 THEN Head(lengths)
    ELSE Max(Head(lengths), MaxOf(Tail(lengths)))

\* What getChunkStats(cs) returns.
ChunkStats(cs) ==
    LET lengths == Lengths(cs)
        totalLength == ReduceSum(lengths, 0)
    IN  [totalChunks |-> Len(cs),
         totalCharacters |-> totalLength,
         averageChunkSize |-> Round(totalLength, Len(cs)),
         minChunkSize |-> MinOf(lengths),
         maxChunkSize |-> MaxOf(lengths),
         chunkSizes |-> lengths]

\* chunks.filter(chunk => chunk.length > maxSize)
OversizedOf(cs, m) == LET Test(c) == Len(c) > m IN SelectSeq(cs, Test)

\* chunks.filter(chunk => chunk.length <= maxSize)
ValidOf(cs, m) == LET Test(c) == Len(c) <= m IN SelectSeq(cs, Test)

\* IndicesOf with positions counted from 1.
IndicesOfFromOne(cs, m) ==
    LET marks == [i \in 1..Len(cs) |-> IF Len(cs[i]) > m THEN i ELSE 0 - 1]
        Test(index) == index # 0 - 1
    IN  SelectSeq(marks, Test)

\* chunks.map((chunk, index) => chunk.length > maxSize ? index : -1)
\*       .filter(index => index !== -1)
IndicesOf(cs, m) ==
    LET marks == [i \in 1..Len(cs) |-> IF Len(cs[i]) > m THEN i - 1 ELSE 0 - 1]
        Test(index) == index # 0 - 1
    IN  SelectSeq(marks, Test)

\* What validateChunks(cs, m) returns.
ChunkValidation(cs, m) ==
    [isValid |-> Len(OversizedOf(cs, m)) = 0,
     totalChunks |-> Len(cs),
     validChunks |-> Len(ValidOf(cs, m)),
     oversizedChunks |-> Len(OversizedOf(cs, m)),
     oversizedIndices |-> IndicesOf(cs, m)]

InitAnalyze ==
    /\ Constructed(defaultChunker)
    /\ input \in InputCollections
    /\ maxSize \in (0 - 1)..MaxChunkLen
    /\ stats = <<>>
    /\ validations = <<>>
    /\ pc = "inspect"
    /\ IdleSplit /\ IdleEqualSize /\ IdleSentence /\ IdleConfig

\* const stats = chunker.getChunkStats(input)
GetChunkStats ==
    /\ pc = "inspect"
    /\ stats = <<>>
    /\ stats' = ChunkStats(input)
    /\ UNCHANGED <<instanceVars, pc, text, options, chunks, equalSizeVars,
                   sentenceVars, input, maxSize, validations, splitterArgs>>

\* chunker.validateChunks(input, maxSize), once more
ValidateChunks ==
    /\ pc = "inspect"
    /\ Len(validations) < MaxCalls
    /\ validations' = Append(validations, ChunkValidation(input, maxSize))
    /\ UNCHANGED <<instanceVars, pc, text, options, chunks, equalSizeVars,
                   sentenceVars, input, maxSize, stats, splitterArgs>>

NextAnalyze == GetChunkStats \/ ValidateChunks

SpecAnalyze == InitAnalyze /\ [][NextAnalyze]_vars

----------------------------------------------------------------------------
(* Claims about getChunkStats and validateChunks *)

\* C7: statistics on an empty chunk collection fail with an EmptyInputError:
\* the call never returns a Statistics value.
C7_EmptyInputReturnsNothing == input = <<>> => stats = <<>>

\* The 1-based positions of the chunks longer than m.
OversizedPositions(cs, m) == {i \in 1..Len(cs) : Len(cs[i]) > m}

ValidationAsClaimed(r) ==
    /\ r.totalChunks = Len(input)
    /\ r.oversizedChunks = Cardinality(OversizedPositions(input, maxSize))
    /\ r.validChunks = Cardinality({i \in 1..Len(input) : Len(input[i]) <= maxSize})
    /\ r.validChunks + r.oversizedChunks = r.totalChunks
    /\ {r.oversizedIndices[k] : k \in 1..Len(r.oversizedIndices)}
           = {i - 1 : i \in OversizedPositions(input, maxSize)}
    /\ \A k \in 1..(Len(r.oversizedIndices) - 1) :
           r.oversizedIndices[k] < r.oversizedIndices[k + 1]
    /\ r.isValid <=> (r.oversizedChunks = 0)

\* C9: validateChunks returns totalChunks = the number of chunks,
\* oversizedChunks = the number of chunks longer than maxSize, validChunks =
\* the number of the others, oversizedIndices = the 0-based positions of the
\* chunks longer than maxSize in ascending order and isValid iff there is
\* none; it leaves its input unchanged, and a second call with the same
\* arguments returns the same result.
C9_ValidationResult ==
    /\ [](\A k \in 1..Len(validations) :
             /\ ValidationAsClaimed(validations[k])
             /\ validations[k] = validations[1])
    /\ [][input' = input /\ maxSize' = maxSize]_vars

\* Two calls were made on a collection with a chunk within maxSize before a
\* chunk beyond it.
C9_Witness ==
    /\ Len(validations) = 2
    /\ validations[2].validChunks >= 1
    /\ validations[2].oversizedChunks >= 1
    /\ validations[2].oversizedIndices = <<1>>

\* The sum of a sequence of numbers, from its last element.
RECURSIVE SumOf(_)
SumOf(ns) ==
    IF ns = <<>> THEN 0 ELSE ns[Len(ns)] + SumOf(SubSeq(ns, 1, Len(ns) - 1))

\* C10: for a non-empty collection, chunkSizes lists the chunk lengths in
\* input order, totalChunks is the number of chunks, totalCharacters is the
\* sum of chunkSizes, and minChunkSize <= averageChunkSize <= maxChunkSize,
\* where averageChunkSize is the mean rounded to the nearest integer (it is
\* within one half of totalCharacters / totalChunks).
C10_StatsOfNonEmpty ==
    (input # <<>> /\ stats # <<>>) =>
        /\ Len(stats.chunkSizes) = Len(input)
        /\ \A i \in 1..Len(input) : stats.chunkSizes[i] = Len(input[i])
        /\ stats.totalChunks = Len(input)
        /\ stats.totalCharacters = SumOf(stats.chunkSizes)
        /\ stats.minChunkSize <= stats.averageChunkSize
        /\ stats.averageChunkSize <= stats.maxChunkSize
        /\ 2 * stats.totalChunks * stats.averageChunkSize - 2 * stats.totalCharacters
               \in (0 - stats.totalChunks)..stats.totalChunks

\* Statistics of three chunks of different lengths whose mean is no integer.
C10_Witness ==
    /\ stats # <<>>
    /\ Len(input) = 3
    /\ stats.totalCharacters % stats.totalChunks # 0
    /\ stats.minChunkSize < stats.averageChunkSize
    /\ stats.averageChunkSize < stats.maxChunkSize

----------------------------------------------------------------------------
(* The library-backed operations: what each passes to its text splitter.   *)
(* The splitter and its splitText are the library's, and are not modelled. *)

TokenChunkSize == 100
TokenChunkOverlap == 20

\* Every options object that takes, for each field, one of the given values
\* or leaves it out.
Optional(f, values) == {NoOptions} \cup {[g \in {f} |-> v] : v \in values}

\* The options a Chunker is constructed with.
CtorOptionsSet ==
    {a @@ b @@ c :
        a \in Optional("chunkSize", {150}),
        b \in Optional("chunkOverlap", {0, 50}),
        c \in Optional("separators", {<<"|">>})}

\* The options of a call.
CallOptionsSet ==
    {a @@ b @@ c @@ d @@ e :
        a \in Optional("chunkSize", {50}),
        b \in Optional("chunkOverlap", {0, 10}),
        c \in Optional("separators", {<<";">>}),
        d \in Optional("separator", {","}),
        e \in Optional("encodingName", {"gpt2"})}

Delimiters == {"\n", ";"}

InitConfig ==
    /\ \E o \in CtorOptionsSet : Constructed(o)
    /\ options \in CallOptionsSet
    /\ pc = "ready"
    /\ text = <<>>
    /\ chunks = <<>>
    /\ splitterArgs = <<>>
    /\ IdleEqualSize /\ IdleSentence /\ IdleAnalyze

\* What a library-backed operation leaves alone.
ConfigFrame ==
    UNCHANGED <<instanceVars, text, options, chunks, equalSizeVars,
                sentenceVars, analyzeVars>>

\* new RecursiveCharacterTextSplitter({...}), then splitText(text)
RecursiveCharacterChunk ==
    /\ pc = "ready"
    /\ splitterArgs' =
           [chunkSize |-> NumOr(options, "chunkSize", defaultChunkSize),
            chunkOverlap |-> NumOr(options, "chunkOverlap", defaultChunkOverlap),
            separators |-> RefOr(options, "separators", defaultSeparators)]
    /\ pc' = "recursiveCharacterChunk"
    /\ ConfigFrame

\* new CharacterTextSplitter({...}), then splitText(text)
CharacterChunk ==
    /\ pc = "ready"
    /\ splitterArgs' =
           [chunkSize |-> NumOr(options, "chunkSize", defaultChunkSize),
            chunkOverlap |-> NumOr(options, "chunkOverlap", defaultChunkOverlap),
            separator |-> RefOr(options, "separator", "\n")]
    /\ pc' = "characterChunk"
    /\ ConfigFrame

\* new TokenTextSplitter({...}), then splitText(text)
TokenChunk ==
    /\ pc = "ready"
    /\ splitterArgs' =
           [chunkSize |-> NumOr(options, "chunkSize", TokenChunkSize),
            chunkOverlap |-> NumOr(options, "chunkOverlap", TokenChunkOverlap),
            encodingName |-> RefOr(options, "encodingName", "cl100k_base")]
    /\ pc' = "tokenChunk"
    /\ ConfigFrame

\* new MarkdownTextSplitter({...}), then splitText(text)
MarkdownChunk ==
    /\ pc = "ready"
    /\ splitterArgs' =
           [chunkSize |-> NumOr(options, "chunkSize", defaultChunkSize),
            chunkOverlap |-> NumOr(options, "chunkOverlap", defaultChunkOverlap)]
    /\ pc' = "markdownChunk"
    /\ ConfigFrame

\* new RecursiveCharacterTextSplitter({...}) with separators of its own
SemanticChunk ==
    /\ pc = "ready"
    /\ splitterArgs' =
           [chunkSize |-> NumOr(options, "chunkSize", defaultChunkSize),
            chunkOverlap |-> NumOr(options, "chunkOverlap", defaultChunkOverlap),
            separators |-> <<"\n\n", "\n", ". ", "! ", "? ", " ", "">>]
    /\ pc' = "semanticChunk"
    /\ ConfigFrame

\* new CharacterTextSplitter({..., separator: delimiter})
DelimiterChunk ==
    \E delimiter \in Delimiters :
        /\ pc = "ready"
        /\ splitterArgs' =
               [chunkSize |-> NumOr(options, "chunkSize", defaultChunkSize),
                chunkOverlap |-> NumOr(options, "chunkOverlap", defaultChunkOverlap),
                separator |-> delimiter]
        /\ pc' = "delimiterChunk"
        /\ ConfigFrame

NextConfig ==
    \/ RecursiveCharacterChunk
    \/ CharacterChunk
    \/ TokenChunk
    \/ MarkdownChunk
    \/ SemanticChunk
    \/ DelimiterChunk

SpecConfig == InitConfig /\ [][NextConfig]_vars

\* The value of field f that the precedence rule allows: the call's when the
\* call specifies one, else the one the instance was constructed with; any
\* hard-coded value when neither specifies one.
FollowsPrecedence(f, value) ==
    IF f \in DOMAIN options THEN value = options[f]
    ELSE IF f \in DOMAIN ctorOptions THEN value = ctorOptions[f]
    ELSE TRUE

\* C8: in every chunking operation, each of chunkSize, chunkOverlap and
\* separators takes the call's value when the call specifies one (a
\* chunkOverlap of 0 included), else the value the instance was constructed
\* with, and a hard-coded value only when neither specifies one; the
\* token-based operation follows the same rule.
C8_ConfigPrecedence ==
    \A f \in {"chunkSize", "chunkOverlap", "separators"} \cap DOMAIN splitterArgs :
        FollowsPrecedence(f, splitterArgs[f])

----------------------------------------------------------------------------
(* The whole class: a Chunker is constructed and one of its operations is  *)
(* called.                                                                 *)

Init == InitEqualSize \/ InitSentence \/ InitAnalyze \/ InitConfig

Next == NextEqualSize \/ NextSentence \/ NextAnalyze \/ NextConfig

Spec == Init /\ [][Next]_vars

=============================================================================
